---------------------------- MODULE Spec2Model ----------------------------
(***************************************************************************)
(* Model of Editor::PhotoEditor (editor/photo_editor.cpp): the brush       *)
(* codec (Serialize / Deserialize), the constructor and the event          *)
(* handlers it subscribes.  One action per handler; every handler runs to  *)
(* completion on the UI thread before the next event is delivered.         *)
(***************************************************************************)
EXTENDS Integers, Sequences, FiniteSets

VARIABLES
    mode,                  \* _mode.current(): [mode, action]
    modifications,         \* _modifications: [angle, flipped]
    photoEditorBrush,      \* Core::App().settings().photoEditorBrush(): bytes
    contentMode,           \* last mode given to _content->applyMode
    controlsMode,          \* last mode given to _controls->applyMode
    colorPickerVisible,    \* last value given to _colorPicker->setVisible
    colorPickerBrush,      \* the brush the ColorPicker was constructed with
    calls,                 \* calls on collaborators made by the last handler
    lastEvent,             \* the handler that ran last ("constructor" at first)
    eventTick,             \* flips each time a handler runs
    nSetPhotoEditorBrush,  \* calls of settings().setPhotoEditorBrush so far
    nSaveSettingsDelayed,  \* calls of Core::App().saveSettingsDelayed so far
    paintApplied,          \* _content->applyMode was called with Paint mode
    nSignals               \* _done and _cancel events fired so far, up to MaxSignals

vars == <<mode, modifications, photoEditorBrush, contentMode, controlsMode,
          colorPickerVisible, colorPickerBrush, calls, lastEvent, eventTick,
          nSetPhotoEditorBrush, nSaveSettingsDelayed, paintApplied, nSignals>>

---------------------------------------------------------------------------
(* Bounds of the model *)

\* writes of the brush setting in one run
MaxBrushWrites == 2

\* brush size ratios are the floats m / 2^RatioBits, m in 0..MaxMantissa,
\* and 1
MaxMantissa == 2

RatioBits == 10

\* done and cancel events counted
MaxSignals == 2

\* size ratios at 1e-5 granularity are the floats nearest to k / 100000,
\* k in FirstGranule..FirstGranule + MaxGranules
FirstGranule == 100021

MaxGranules == 3

---------------------------------------------------------------------------
(* Brush codec *)

kPrecision == 100000

Abs(n) == IF n < 0 THEN -n ELSE n

Sign(n) == IF n < 0 THEN -1 ELSE 1

\* Bits in a float's significand (IEEE 754 binary32).
SignificandBits == 24

\* A float held exactly: the value num / 2^exp with num odd, or 0.
RECURSIVE Float(_, _)
Float(num, exp) ==
    IF num = 0 THEN [num |-> 0, exp |-> 0]
    ELSE IF num % 2 = 0 THEN Float(num \div 2, exp - 1)
    ELSE [num |-> num, exp |-> exp]

\* q, the quotient of a division by 2^drop with remainder rem, rounded to
\* nearest, ties to even.
RoundHalfEven(q, rem, drop) ==
    IF drop = 0 THEN q
    ELSE LET half == 2 ^ (drop - 1)
         IN  IF rem > half \/ (rem = half /\ q % 2 = 1) THEN q + 1 ELSE q

\* The low bits a product hi * 4096 + lo sheds to fit the significand.
RECURSIVE DropBits(_, _)
DropBits(hi, drop) ==
    IF hi < 2 ^ (SignificandBits - 12 + drop) THEN drop ELSE DropBits(hi, drop + 1)

\* float * int: the int becomes a float (k < 2^24 is exact) and the product
\* is rounded to the significand.  The product is held as hi * 4096 + lo.
FloatTimes(f, k) ==
    LET n == Abs(f.num)
        a == (n \div 4096) * k
        b == (n % 4096) * k
        hi == a + b \div 4096
        lo == b % 4096
        drop == DropBits(hi, 0)
        q == IF drop >= 12 THEN hi \div 2 ^ (drop - 12)
             ELSE hi * 2 ^ (12 - drop) + lo \div 2 ^ drop
        rem == IF drop >= 12 THEN (hi % 2 ^ (drop - 12)) * 4096 + lo
               ELSE lo % 2 ^ drop
    IN  Float(Sign(f.num) * RoundHalfEven(q, rem, drop), f.exp - drop)

\* Long division of 2^exp * (q + rem / k) until q fills the significand or
\* the division is exact.
RECURSIVE DivideBits(_, _, _, _)
DivideBits(q, rem, exp, k) ==
    IF q >= 2 ^ (SignificandBits - 1) \/ rem = 0
    THEN [q |-> q, rem |-> rem, exp |-> exp]
    ELSE DivideBits(2 * q + (IF 2 * rem >= k THEN 1 ELSE 0),
                    IF 2 * rem >= k THEN 2 * rem - k ELSE 2 * rem,
                    exp + 1, k)

\* int / float: the int becomes a float (below 2^24 it is exact) and the
\* quotient is rounded to the significand.
IntOverFloat(n, k) ==
    LET d == DivideBits(Abs(n) \div k, Abs(n) % k, 0, k)
        up == 2 * d.rem > k \/ (2 * d.rem = k /\ d.q % 2 = 1)
    IN  Float(Sign(n) * (IF up THEN d.q + 1 ELSE d.q), d.exp)

\* QColor's fields as QDataStream writes them: the spec byte and five quint16.
QColor(cspec, alpha, red, green, blue) ==
    [cspec |-> cspec, alpha |-> alpha, red |-> red, green |-> green,
     blue |-> blue, pad |-> 0]

\* QColor(): Invalid, opaque black.
DefaultColor == QColor(0, 65535, 0, 0, 0)

Colors == {DefaultColor, QColor(1, 32896, 4660, 22136, 65535)}

SizeRatios == {Float(m, RatioBits) : m \in 0..MaxMantissa} \cup {Float(1, 0)}

\* Brushes the color picker can ask to save.
Brushes == [sizeRatio : SizeRatios, color : Colors]

\* Size ratios at 1e-5 granularity, as the floats a brush holds.
GranularSizeRatios ==
    {IntOverFloat(FirstGranule + i, kPrecision) : i \in 0..MaxGranules}

GranularBrushes == [sizeRatio : GranularSizeRatios, color : Colors]

\* Brush(): float sizeRatio = 0, QColor color.
DefaultBrush == [sizeRatio |-> Float(0, 0), color |-> DefaultColor]

\* Conversion of a float to an integer type: the fraction is discarded.
FloatToInt(f) ==
    IF f.exp <= 0 THEN f.num * 2 ^ (-f.exp)
    ELSE IF f.exp > 30 THEN 0
    ELSE Sign(f.num) * (Abs(f.num) \div 2 ^ f.exp)

\* qint32(brush.sizeRatio * kPrecision).
SizeToInt32(sizeRatio) == FloatToInt(FloatTimes(sizeRatio, kPrecision))

\* QDataStream << quint16: two bytes, big endian.
PutUInt16(v) == <<v \div 256, v % 256>>

\* v + 2^31 for a negative qint32 v: its low 31 bits in two's complement.
Low31(v) == (v + 2147483647) + 1

\* QDataStream << qint32: four bytes, big endian, two's complement.
PutInt32(v) ==
    LET u == IF v >= 0 THEN v ELSE Low31(v)
        sign == IF v >= 0 THEN 0 ELSE 128
    IN  <<sign + u \div (2 ^ 24), (u \div (2 ^ 16)) % 256, (u \div 256) % 256,
          u % 256>>

\* QDataStream << QColor (Qt_5_3).
PutColor(c) ==
    <<c.cspec>> \o PutUInt16(c.alpha) \o PutUInt16(c.red)
        \o PutUInt16(c.green) \o PutUInt16(c.blue) \o PutUInt16(c.pad)

Serialize(brush) == PutInt32(SizeToInt32(brush.sizeRatio)) \o PutColor(brush.color)

\* QDataStream >> qint8 (kept as 0..255): 0 when the data ends before it.
GetUInt8(data, at) == IF at <= Len(data) THEN data[at] ELSE 0

\* QDataStream >> quint16: 0 when the data ends before its last byte.
GetUInt16(data, at) ==
    IF at + 1 <= Len(data) THEN data[at] * 256 + data[at + 1] ELSE 0

\* QDataStream >> qint32: 0 when the data ends before its last byte.
GetInt32(data, at) ==
    IF at + 3 > Len(data) THEN 0
    ELSE LET u == (((data[at] % 128) * 256 + data[at + 1]) * 256
                      + data[at + 2]) * 256 + data[at + 3]
         IN  IF data[at] >= 128 THEN (u - 2147483647) - 1 ELSE u

\* Bytes stream >> size >> result.color consumes.
StreamLen == Len(Serialize(DefaultBrush))

\* The status check left out: every stream counts as Ok.
StreamOkUnchecked(data) == TRUE

\* stream.status() after the two reads: Ok iff the data held every byte asked for.
StreamOk(data) == Len(data) >= StreamLen

\* result after stream >> size >> result.color and the division.
Parsed(data) ==
    [sizeRatio |-> IntOverFloat(GetInt32(data, 1), kPrecision),
     color |-> [cspec |-> GetUInt8(data, 5),
                alpha |-> GetUInt16(data, 6),
                red   |-> GetUInt16(data, 8),
                green |-> GetUInt16(data, 10),
                blue  |-> GetUInt16(data, 12),
                pad   |-> GetUInt16(data, 14)]]

Deserialize(data) == IF StreamOk(data) THEN Parsed(data) ELSE DefaultBrush

---------------------------------------------------------------------------
(* Editor state *)

Transform == "Transform"
Paint == "Paint"

PhotoEditorMode(m, a) == [mode |-> m, action |-> a]

\* _mode constructed in Paint mode.
DefaultModePaint == PhotoEditorMode(Paint, "None")

\* PhotoEditorMode{}: the value _mode is constructed with.
DefaultMode == PhotoEditorMode(Transform, "None")

Modes == [mode : {Transform, Paint}, action : {"None", "Save", "Discard"}]

\* Angles the rotate handler produces from PhotoModifications{} (angle 0).
Angles == {0, 90, 180, 270}

\* Modifications the constructor is given: PhotoModifications{} or a value an
\* earlier editor emitted through doneRequests().  The constructor stores the
\* argument as it is.
PhotoModifications == [angle : Angles, flipped : BOOLEAN]

\* Widget sizes sizeValue() delivers; the first is empty.
Sizes == {[w |-> 0, h |-> 0], [w |-> 800, h |-> 600]}

\* Brushes an earlier editor left in the settings.
EarlierBrushes ==
    [sizeRatio : {Float(MaxMantissa, RatioBits), Float(1, 0)},
     color : Colors \ {DefaultColor}]

\* Settings bytes cut short: after the integer, and one byte before the end.
CutBrushes ==
    {SubSeq(Serialize(b), 1, n) :
        b \in {c \in EarlierBrushes : c.sizeRatio = Float(1, 0)},
        n \in {4, StreamLen - 1}}

\* Settings bytes the editor can find: never written, written by an earlier
\* editor, or cut short.
StoredBrushes == {<<>>} \cup {Serialize(b) : b \in EarlierBrushes} \cup CutBrushes

Call(op, arg) == [op |-> op, arg |-> arg]

CallOps(cs) == [i \in DOMAIN cs |-> cs[i].op]

\* The subscriber applying the mode to the controls before the canvas.
ModeSubscriberControlsFirst(m) ==
    <<Call("controls.applyMode", m),
      Call("content.applyMode", m),
      Call("colorPicker.setVisible", [visible |-> (m.mode = Paint)])>>

\* The _mode.value() subscriber.
ModeSubscriber(m) ==
    <<Call("content.applyMode", m),
      Call("controls.applyMode", m),
      Call("colorPicker.setVisible", [visible |-> (m.mode = Paint)])>>

\* _mode = value: the variable takes the value and its subscriber runs.  When the
\* value assigned equals the current one the subscriber runs or not, depending on
\* whether PhotoEditorMode is equality comparable (fired is the outcome).
AssignMode(value, fired) ==
    /\ fired \/ value = mode
    /\ mode' = value
    /\ IF fired
       THEN /\ calls' = ModeSubscriber(value)
            /\ contentMode' = value
            /\ controlsMode' = value
            /\ colorPickerVisible' = (value.mode = Paint)
       ELSE /\ calls' = <<>>
            /\ UNCHANGED <<contentMode, controlsMode, colorPickerVisible>>

\* save() with the event fired before the canvas is asked to save.
saveFiresFirst(m) == <<Call("done.fire", m), Call("content.save", m)>>

\* PhotoEditor::save().
save(m) == <<Call("content.save", m), Call("done.fire", m)>>

\* The subscriptions ending with the first event the editor fires.
SubscribedUntilSignal == nSignals = 0

\* The handlers are subscribed with start_with_next(..., lifetime()) in the
\* constructor and no handler ends a subscription.
Subscribed == TRUE

Handled(event) ==
    /\ Subscribed
    /\ eventTick' = 1 - eventTick
    /\ lastEvent' = event

\* What the handler's calls add to the record of the run.
Recorded ==
    LET fires == {i \in DOMAIN calls' : calls'[i].op \in {"done.fire", "cancel.fire"}}
        paints == {i \in DOMAIN calls' : /\ calls'[i].op = "content.applyMode"
                                          /\ calls'[i].arg.mode = Paint}
        n == nSignals + Cardinality(fires)
    IN  /\ nSignals' = (IF n > MaxSignals THEN MaxSignals ELSE n)
        /\ paintApplied' = (paintApplied \/ paints # {})

\* The sizeValue() subscriber.
SizeSubscriber(size) ==
    IF size.w <= 0 \/ size.h <= 0
    THEN <<>>
    ELSE <<Call("content.setGeometry", size),
           Call("controls.setGeometry", size),
           Call("colorPicker.moveLine", size)>>

\* What the constructor leaves, given its modifications argument, the stored
\* settings bytes and the widget's size: each start_with_next runs its
\* subscriber once with the current value.
PhotoEditor(mods, stored, size) ==
    [modifications |-> mods,
     colorPickerBrush |-> Deserialize(stored),
     mode |-> DefaultMode,
     calls |-> SizeSubscriber(size) \o ModeSubscriber(DefaultMode),
     colorPickerVisible |-> (DefaultMode.mode = Paint)]

\* The state a newly constructed editor is in.
Constructed(mods, stored, size) ==
    LET editor == PhotoEditor(mods, stored, size)
    IN  /\ modifications = editor.modifications
        /\ photoEditorBrush = stored
        /\ colorPickerBrush = editor.colorPickerBrush
        /\ mode = editor.mode
        /\ calls = editor.calls
        /\ contentMode = editor.mode
        /\ controlsMode = editor.mode
        /\ colorPickerVisible = editor.colorPickerVisible
        /\ lastEvent = "constructor"
        /\ eventTick = 0
        /\ nSetPhotoEditorBrush = 0
        /\ nSaveSettingsDelayed = 0
        /\ paintApplied = FALSE
        /\ nSignals = 0

Init == \E mods \in PhotoModifications, stored \in StoredBrushes, size \in Sizes :
            Constructed(mods, stored, size)

---------------------------------------------------------------------------
(* Event handlers *)

sizeValue(size) ==
    /\ Handled("sizeValue")
    /\ calls' = SizeSubscriber(size)
    /\ UNCHANGED <<mode, modifications, photoEditorBrush, contentMode,
                   controlsMode, colorPickerVisible, colorPickerBrush,
                   nSetPhotoEditorBrush, nSaveSettingsDelayed>>
    /\ Recorded

\* The rotate handler without its wrap.
RotateAngleNoWrap(angle) == angle + 90

\* The rotate handler wrapping only above 360.
RotateAngleOffByOne(angle) ==
    IF angle + 90 > 360 THEN angle + 90 - 360 ELSE angle + 90

\* _modifications.angle += 90; if (angle >= 360) angle -= 360.
RotateAngle(angle) ==
    IF angle + 90 >= 360 THEN angle + 90 - 360 ELSE angle + 90

\* _modifications after the rotate handler's assignments.
Rotated(m) == [m EXCEPT !.angle = RotateAngle(@)]

rotateRequests ==
    /\ Handled("rotateRequests")
    /\ modifications' = Rotated(modifications)
    /\ calls' = <<Call("content.applyModifications", modifications')>>
    /\ UNCHANGED <<mode, photoEditorBrush, contentMode, controlsMode,
                   colorPickerVisible, colorPickerBrush,
                   nSetPhotoEditorBrush, nSaveSettingsDelayed>>
    /\ Recorded

\* The flip handler mirroring the angle as well.
FlippedMirrorsAngle(m) ==
    [angle |-> (360 - m.angle) % 360, flipped |-> ~m.flipped]

\* _modifications after the flip handler's assignment.
Flipped(m) == [m EXCEPT !.flipped = ~@]

flipRequests ==
    /\ Handled("flipRequests")
    /\ modifications' = Flipped(modifications)
    /\ calls' = <<Call("content.applyModifications", modifications')>>
    /\ UNCHANGED <<mode, photoEditorBrush, contentMode, controlsMode,
                   colorPickerVisible, colorPickerBrush,
                   nSetPhotoEditorBrush, nSaveSettingsDelayed>>
    /\ Recorded

\* The paint mode value with the pending action carried over.
PaintModeValueKeepsAction == PhotoEditorMode(Paint, mode.action)

\* The paint mode value tagged with an action.
PaintModeValueSaves == PhotoEditorMode(Paint, "Save")

PaintModeValue == PhotoEditorMode(Paint, "None")

paintModeRequests ==
    /\ Handled("paintModeRequests")
    /\ \E fired \in BOOLEAN : AssignMode(PaintModeValue, fired)
    /\ UNCHANGED <<modifications, photoEditorBrush, colorPickerBrush,
                   nSetPhotoEditorBrush, nSaveSettingsDelayed>>
    /\ Recorded

\* The done mode value without its action.
DoneModeValueNoAction == PhotoEditorMode(Transform, "None")

DoneModeValue == PhotoEditorMode(Transform, "Save")

\* The done handler saving at once in either mode.
doneRequestsCollapsed ==
    /\ Handled("doneRequests")
    /\ calls' = save(modifications)
    /\ UNCHANGED <<mode, contentMode, controlsMode, colorPickerVisible>>
    /\ UNCHANGED <<modifications, photoEditorBrush, colorPickerBrush,
                   nSetPhotoEditorBrush, nSaveSettingsDelayed>>
    /\ Recorded

\* The done handler giving its modifications away with the event.
doneRequestsMovesModifications ==
    /\ Handled("doneRequests")
    /\ IF mode.mode = Paint
       THEN /\ \E fired \in BOOLEAN : AssignMode(DoneModeValue, fired)
            /\ UNCHANGED modifications
       ELSE /\ calls' = save(modifications)
            /\ modifications' = [angle |-> 0, flipped |-> FALSE]
            /\ UNCHANGED <<mode, contentMode, controlsMode, colorPickerVisible>>
    /\ UNCHANGED <<photoEditorBrush, colorPickerBrush,
                   nSetPhotoEditorBrush, nSaveSettingsDelayed>>
    /\ Recorded

doneRequests ==
    /\ Handled("doneRequests")
    /\ IF mode.mode = Paint
       THEN \E fired \in BOOLEAN : AssignMode(DoneModeValue, fired)
       ELSE /\ calls' = save(modifications)
            /\ UNCHANGED <<mode, contentMode, controlsMode, colorPickerVisible>>
    /\ UNCHANGED <<modifications, photoEditorBrush, colorPickerBrush,
                   nSetPhotoEditorBrush, nSaveSettingsDelayed>>
    /\ Recorded

\* The cancel mode value with the done handler's action.
CancelModeValueSaves == PhotoEditorMode(Transform, "Save")

CancelModeValue == PhotoEditorMode(Transform, "Discard")

\* The cancel handler's Transform branch doing what the done handler's does.
fireCancelSaves == save(modifications)

\* The cancel handler's Transform branch applying the mode again before firing.
fireCancelReapplies ==
    ModeSubscriber(mode) \o <<Call("cancel.fire", [none |-> TRUE])>>

\* _cancel.fire({}).
fireCancel == <<Call("cancel.fire", [none |-> TRUE])>>

cancelRequests ==
    /\ Handled("cancelRequests")
    /\ IF mode.mode = Paint
       THEN \E fired \in BOOLEAN : AssignMode(CancelModeValue, fired)
       ELSE /\ calls' = fireCancel
            /\ UNCHANGED <<mode, contentMode, controlsMode, colorPickerVisible>>
    /\ UNCHANGED <<modifications, photoEditorBrush, colorPickerBrush,
                   nSetPhotoEditorBrush, nSaveSettingsDelayed>>
    /\ Recorded

\* The saveBrushRequests handler without its test.
BrushChangedAlways(stored, serialized) == TRUE

\* The saveBrushRequests handler never writing.
BrushChangedNever(stored, serialized) == FALSE

\* The test of the saveBrushRequests handler.
BrushChanged(stored, serialized) == stored # serialized

saveBrushRequests(brush) ==
    LET serialized == Serialize(brush)
    IN  /\ nSetPhotoEditorBrush < MaxBrushWrites
        /\ Handled("saveBrushRequests")
        /\ IF BrushChanged(photoEditorBrush, serialized)
           THEN /\ photoEditorBrush' = serialized
                /\ nSetPhotoEditorBrush' = nSetPhotoEditorBrush + 1
                /\ nSaveSettingsDelayed' = nSaveSettingsDelayed + 1
                /\ calls' = <<Call("content.applyBrush", brush),
                              Call("settings.setPhotoEditorBrush",
                                   [bytes |-> serialized]),
                              Call("saveSettingsDelayed", [none |-> TRUE])>>
           ELSE /\ calls' = <<Call("content.applyBrush", brush)>>
                /\ UNCHANGED <<photoEditorBrush, nSetPhotoEditorBrush,
                               nSaveSettingsDelayed>>
        /\ UNCHANGED <<mode, modifications, contentMode, controlsMode,
                       colorPickerVisible, colorPickerBrush>>
        /\ Recorded

Next ==
    \/ \E size \in Sizes : sizeValue(size)
    \/ rotateRequests
    \/ flipRequests
    \/ paintModeRequests
    \/ doneRequests
    \/ cancelRequests
    \/ \E brush \in Brushes : saveBrushRequests(brush)

Spec == Init /\ [][Next]_vars

\* The editor is closed and a new PhotoEditor is constructed over the settings
\* the old one left, with the modifications it held.
PhotoEditorReopened ==
    \E size \in Sizes :
        LET editor == PhotoEditor(modifications, photoEditorBrush, size)
        IN  /\ Handled("constructor")
            /\ colorPickerBrush' = editor.colorPickerBrush
            /\ mode' = editor.mode
            /\ calls' = editor.calls
            /\ contentMode' = editor.mode
            /\ controlsMode' = editor.mode
            /\ colorPickerVisible' = editor.colorPickerVisible
            /\ UNCHANGED <<modifications, photoEditorBrush,
                           nSetPhotoEditorBrush, nSaveSettingsDelayed>>
            /\ Recorded

NextReopen ==
    \/ \E brush \in GranularBrushes : saveBrushRequests(brush)
    \/ PhotoEditorReopened

\* Brushes at 1e-5 granularity saved, and read back by the next editor.
SpecReopen == Init /\ [][NextReopen]_vars

---------------------------------------------------------------------------
(* Properties *)

HasCall(cs, op, arg) == \E i \in DOMAIN cs : cs[i].op = op /\ cs[i].arg = arg

HasOp(cs, op) == \E i \in DOMAIN cs : cs[i].op = op

CountOp(cs, op) == Cardinality({i \in DOMAIN cs : cs[i].op = op})

\* C1: a done request handled in Transform mode calls the canvas's save once
\* with the current modifications, then fires one done event with the same
\* modifications, and changes neither the mode nor the modifications.
C1_DoneInTransformSaves ==
    [][(mode.mode = "Transform" /\ lastEvent' = "doneRequests")
        => /\ calls' = <<[op |-> "content.save", arg |-> modifications],
                         [op |-> "done.fire", arg |-> modifications]>>
           /\ mode' = mode
           /\ modifications' = modifications]_vars

C1_Witness ==
    /\ lastEvent = "doneRequests"
    /\ mode.mode = "Transform"
    /\ modifications = [angle |-> 270, flipped |-> TRUE]
    /\ CallOps(calls) = <<"content.save", "done.fire">>
    /\ calls[2].arg = modifications

\* C2: a done request handled in Paint mode sets the mode to {Transform, Save},
\* applies that value to the canvas and the controls, and neither saves nor
\* fires a done event.
C2_DoneInPaintReentersTransform ==
    [][(mode.mode = "Paint" /\ lastEvent' = "doneRequests")
        => LET v == [mode |-> "Transform", action |-> "Save"]
           IN  /\ mode' = v
               /\ contentMode' = v /\ HasCall(calls', "content.applyMode", v)
               /\ controlsMode' = v /\ HasCall(calls', "controls.applyMode", v)
               /\ ~HasOp(calls', "content.save")
               /\ ~HasOp(calls', "done.fire")]_vars

C2_Witness ==
    /\ lastEvent = "doneRequests"
    /\ mode = [mode |-> "Transform", action |-> "Save"]
    /\ contentMode = mode /\ controlsMode = mode
    /\ HasCall(calls, "content.applyMode", mode)

\* C3: a cancel request handled in Paint mode sets the mode to
\* {Transform, Discard}, applies that value to the canvas and the controls, and
\* fires no cancel event.
C3_CancelInPaintDiscards ==
    [][(mode.mode = "Paint" /\ lastEvent' = "cancelRequests")
        => LET v == [mode |-> "Transform", action |-> "Discard"]
           IN  /\ mode' = v
               /\ contentMode' = v /\ HasCall(calls', "content.applyMode", v)
               /\ controlsMode' = v /\ HasCall(calls', "controls.applyMode", v)
               /\ ~HasOp(calls', "cancel.fire")]_vars

C3_Witness ==
    /\ lastEvent = "cancelRequests"
    /\ mode = [mode |-> "Transform", action |-> "Discard"]
    /\ contentMode = mode /\ controlsMode = mode
    /\ HasCall(calls, "controls.applyMode", mode)

\* C4: a cancel request handled in Transform mode fires exactly one cancel
\* event and nothing else: the mode with its pending action, the
\* modifications and the stored brush bytes stay as they were, and the canvas
\* gets no applyMode, applyModifications or save call.
C4_CancelInTransformOnlyFires ==
    [][(mode.mode = "Transform" /\ lastEvent' = "cancelRequests")
        => /\ CallOps(calls') = <<"cancel.fire">>
           /\ mode' = mode
           /\ contentMode' = contentMode /\ controlsMode' = controlsMode
           /\ modifications' = modifications
           /\ photoEditorBrush' = photoEditorBrush
           /\ nSetPhotoEditorBrush' = nSetPhotoEditorBrush]_vars

C4_Witness ==
    /\ lastEvent = "cancelRequests"
    /\ mode = [mode |-> "Transform", action |-> "Save"]
    /\ CallOps(calls) = <<"cancel.fire">>
    /\ nSetPhotoEditorBrush > 0

\* C5: a paint mode request, in whatever mode and pending action it arrives,
\* leaves the mode at exactly {Paint, None}, does not touch the modifications
\* and fires neither a done nor a cancel event.
C5_PaintModeFromAnyState ==
    [][lastEvent' = "paintModeRequests"
        => /\ mode' = [mode |-> "Paint", action |-> "None"]
           /\ modifications' = modifications
           /\ ~HasOp(calls', "done.fire")
           /\ ~HasOp(calls', "cancel.fire")
           /\ ~HasOp(calls', "content.save")]_vars

C5_Witness ==
    /\ lastEvent = "paintModeRequests"
    /\ mode = [mode |-> "Paint", action |-> "None"]
    /\ contentMode = mode
    /\ colorPickerVisible

\* C6: a rotate request, in any mode, sets the angle to (angle + 90) mod 360,
\* leaves flipped and the mode as they were and applies the new modifications
\* to the canvas; three more rotate requests bring the angle back, so four
\* from angle 0 end at 0.
C6_RotateAdds90Mod360 ==
    [][lastEvent' = "rotateRequests"
        => /\ modifications'.angle = (modifications.angle + 90) % 360
           /\ modifications'.flipped = modifications.flipped
           /\ mode' = mode
           /\ calls' = <<[op |-> "content.applyModifications",
                          arg |-> modifications']>>
           /\ Rotated(Rotated(Rotated(modifications'))) = modifications]_vars

C6_Witness ==
    /\ lastEvent = "rotateRequests"
    /\ modifications.angle = 0
    /\ mode.mode = "Paint"
    /\ calls[1].arg.angle = 0

\* C7: a flip request, in any mode, negates flipped, leaves the angle and the
\* mode as they were and applies the new modifications to the canvas; a second
\* flip restores the modifications, and flip then rotate gives what rotate then
\* flip gives.
C7_FlipNegatesAndCommutes ==
    [][lastEvent' = "flipRequests"
        => /\ modifications'.flipped = ~modifications.flipped
           /\ modifications'.angle = modifications.angle
           /\ mode' = mode
           /\ calls' = <<[op |-> "content.applyModifications",
                          arg |-> modifications']>>
           /\ Flipped(modifications') = modifications
           /\ Rotated(modifications') = Flipped(Rotated(modifications))]_vars

C7_Witness ==
    /\ lastEvent = "flipRequests"
    /\ modifications = [angle |-> 90, flipped |-> TRUE]
    /\ mode.mode = "Paint"
    /\ calls[1].arg = modifications

C9_BrushWrittenIffChanged ==
    [][/\ nSaveSettingsDelayed' = nSetPhotoEditorBrush'
       /\ lastEvent' # "saveBrushRequests"
            => nSetPhotoEditorBrush' = nSetPhotoEditorBrush
       /\ lastEvent' = "saveBrushRequests"
            => LET brush == calls'[1].arg
                   differs == Serialize(brush) # photoEditorBrush
                   writes == CountOp(calls', "settings.setPhotoEditorBrush")
                   schedules == CountOp(calls', "saveSettingsDelayed")
               IN  /\ calls'[1].op = "content.applyBrush"
                   /\ writes = (IF differs THEN 1 ELSE 0)
                   /\ schedules = writes
                   /\ nSetPhotoEditorBrush' = nSetPhotoEditorBrush + writes
                   /\ (writes = 1) <=> (photoEditorBrush' # photoEditorBrush)
                   /\ (lastEvent = "saveBrushRequests" /\ calls[1].arg = brush)
                        => writes = 0]_vars

C9_Witness ==
    /\ lastEvent = "saveBrushRequests"
    /\ CallOps(calls) = <<"content.applyBrush">>
    /\ nSetPhotoEditorBrush = 1
    /\ nSaveSettingsDelayed = 1
    /\ photoEditorBrush = Serialize(calls[1].arg)

\* The integer nearest to num / den, for num >= 0 and den > 0.
RoundToInt(num, den) == (2 * num + den) \div (2 * den)

\* C10: the 4-byte integer written for a brush is round(sizeRatio * 100000),
\* the integer nearest to the scaled ratio.
C10_EncodesRoundedRatio ==
    HasOp(calls, "settings.setPhotoEditorBrush")
        => GetInt32(photoEditorBrush, 1)
               = RoundToInt(calls[1].arg.sizeRatio.num * kPrecision,
                            2 ^ calls[1].arg.sizeRatio.exp)

\* |a - b| <= 1 / kPrecision for two floats.
WithinPrecision(a, b) ==
    LET e == IF a.exp >= b.exp THEN (IF a.exp >= 0 THEN a.exp ELSE 0)
             ELSE (IF b.exp >= 0 THEN b.exp ELSE 0)
    IN  Abs(a.num * 2 ^ (e - a.exp) - b.num * 2 ^ (e - b.exp))
            <= (2 ^ e) \div kPrecision

\* C11: a brush with a size ratio in [0, 10) at 1e-5 granularity, saved and
\* decoded again by the next editor, comes back with the ratio within 1e-5 and
\* the same color.
C11_RoundTripWithinPrecision ==
    [][(lastEvent = "saveBrushRequests" /\ lastEvent' = "constructor")
        => /\ WithinPrecision(colorPickerBrush'.sizeRatio, calls[1].arg.sizeRatio)
           /\ colorPickerBrush'.color = calls[1].arg.color]_vars

C13_StartsInTransformNone ==
    lastEvent = "constructor"
        => LET v == [mode |-> "Transform", action |-> "None"]
           IN  /\ mode = v /\ contentMode = v /\ controlsMode = v
               /\ HasCall(calls, "content.applyMode", v)
               /\ HasCall(calls, "controls.applyMode", v)
               /\ CountOp(calls, "content.applyMode") = 1
               /\ CountOp(calls, "controls.applyMode") = 1
               /\ ~colorPickerVisible
               /\ colorPickerBrush = Deserialize(photoEditorBrush)
               /\ Len(photoEditorBrush) = 0 => colorPickerBrush = DefaultBrush

C13_Witness ==
    /\ lastEvent = "constructor"
    /\ nSetPhotoEditorBrush > 0
    /\ colorPickerBrush.sizeRatio.num # 0
    /\ colorPickerBrush.color.cspec = 1
    /\ contentMode = [mode |-> "Transform", action |-> "None"]

\* applyMode calls in cs to the receiver (content or controls) carrying action.
Deliveries(cs, receiver, action) ==
    Cardinality({i \in DOMAIN cs : /\ cs[i].op = receiver
                                   /\ cs[i].arg.action = action})

\* C14: a pending Save or Discard is delivered once.  Construction delivers
\* none; every event delivers to the canvas, and to the controls, one applyMode
\* call with action Save exactly when it is a done request received in Paint
\* mode and none otherwise, and one with action Discard exactly when it is a
\* cancel request received in Paint mode and none otherwise.  So the counts
\* over a run are equal, and rotate, flip, done or cancel in Transform, brush
\* save and geometry change never deliver Save or Discard again.
C14_PendingActionDeliveredOnce ==
    /\ \A receiver \in {"content.applyMode", "controls.applyMode"} :
          /\ Deliveries(calls, receiver, "Save") = 0
          /\ Deliveries(calls, receiver, "Discard") = 0
    /\ [][\A receiver \in {"content.applyMode", "controls.applyMode"} :
            /\ Deliveries(calls', receiver, "Save") =
                    (IF lastEvent' = "doneRequests" /\ mode.mode = "Paint"
                     THEN 1 ELSE 0)
            /\ Deliveries(calls', receiver, "Discard") =
                    (IF lastEvent' = "cancelRequests" /\ mode.mode = "Paint"
                     THEN 1 ELSE 0)]_vars

C14_Witness ==
    /\ lastEvent = "cancelRequests"
    /\ mode = [mode |-> "Transform", action |-> "Save"]
    /\ CallOps(calls) = <<"cancel.fire">>
    /\ paintApplied

\* C15: the done handshake takes two steps.  The canvas's save is called and a
\* done event fired only by a done request received in Transform mode; once
\* Paint mode was applied to the canvas, the last mode applied to it before a
\* done event (so after the latest application of Paint) is {Transform, Save}
\* or {Transform, Discard}; a done request received in Paint mode fires no done
\* event and calls no save.
C15_DoneHandshakeTwoSteps ==
    /\ ~HasOp(calls, "done.fire") /\ ~HasOp(calls, "content.save")
    /\ [][/\ (HasOp(calls', "done.fire") \/ HasOp(calls', "content.save"))
              => /\ lastEvent' = "doneRequests"
                 /\ mode.mode = "Transform"
                 /\ paintApplied
                      => contentMode \in {[mode |-> "Transform", action |-> "Save"],
                                          [mode |-> "Transform", action |-> "Discard"]}
          /\ (lastEvent' = "doneRequests" /\ mode.mode = "Paint")
              => /\ ~HasOp(calls', "done.fire")
                 /\ ~HasOp(calls', "content.save")]_vars

C15_Witness ==
    /\ lastEvent = "doneRequests"
    /\ HasOp(calls, "done.fire")
    /\ paintApplied
    /\ contentMode = [mode |-> "Transform", action |-> "Discard"]

\* C16: only rotate and flip requests change the modifications.  Every other
\* event (paint mode, done and cancel in either mode, brush save, geometry
\* change) leaves angle and flipped as they were; after a save the editor still
\* holds the modifications the done event carried.
C16_ModificationsOnlyByRotateFlip ==
    [][/\ lastEvent' \notin {"rotateRequests", "flipRequests"}
          => /\ modifications'.angle = modifications.angle
             /\ modifications'.flipped = modifications.flipped
       /\ lastEvent' \in {"rotateRequests", "flipRequests"}
          => modifications' # modifications
       /\ HasOp(calls', "done.fire")
          => HasCall(calls', "done.fire", modifications')]_vars

C16_Witness ==
    /\ lastEvent = "doneRequests"
    /\ HasCall(calls, "done.fire", modifications)
    /\ HasCall(calls, "content.save", modifications)
    /\ modifications = [angle |-> 90, flipped |-> TRUE]
    /\ nSignals = MaxSignals

\* C17: the editor has no terminal state.  In every reachable state each of the
\* rotate, flip, paint mode, done and cancel requests is accepted, and after a
\* done or cancel event was fired each is handled by the same rules as before:
\* in particular a further done request in Transform mode calls save and fires
\* a done event again.
C17_NoTerminalState ==
    /\ [](/\ ENABLED rotateRequests
          /\ ENABLED flipRequests
          /\ ENABLED paintModeRequests
          /\ ENABLED doneRequests
          /\ ENABLED cancelRequests)
    /\ [][nSignals > 0 =>
            /\ lastEvent' = "rotateRequests"
               => /\ modifications' =
                        [angle |-> (modifications.angle + 90) % 360,
                         flipped |-> modifications.flipped]
                  /\ CallOps(calls') = <<"content.applyModifications">>
            /\ lastEvent' = "flipRequests"
               => /\ modifications' =
                        [angle |-> modifications.angle,
                         flipped |-> ~modifications.flipped]
                  /\ CallOps(calls') = <<"content.applyModifications">>
            /\ lastEvent' = "paintModeRequests"
               => mode' = [mode |-> "Paint", action |-> "None"]
            /\ (lastEvent' = "doneRequests" /\ mode.mode = "Transform")
               => /\ CallOps(calls') = <<"content.save", "done.fire">>
                  /\ mode' = mode
            /\ (lastEvent' = "doneRequests" /\ mode.mode = "Paint")
               => /\ mode' = [mode |-> "Transform", action |-> "Save"]
                  /\ ~HasOp(calls', "done.fire")
            /\ (lastEvent' = "cancelRequests" /\ mode.mode = "Transform")
               => /\ CallOps(calls') = <<"cancel.fire">>
                  /\ mode' = mode
            /\ (lastEvent' = "cancelRequests" /\ mode.mode = "Paint")
               => /\ mode' = [mode |-> "Transform", action |-> "Discard"]
                  /\ ~HasOp(calls', "cancel.fire")]_vars

C17_Witness ==
    /\ nSignals = 2
    /\ lastEvent = "doneRequests"
    /\ CallOps(calls) = <<"content.save", "done.fire">>
    /\ mode = [mode |-> "Transform", action |-> "Save"]

\* C18: in every state from construction on, the colour picker is visible
\* exactly when the mode is Paint; an event that changes the mode applies the
\* new mode to the canvas, then to the controls, then sets the picker's
\* visibility, all in that event's step.
C18_PickerVisibleIffPaint ==
    /\ [](colorPickerVisible <=> (mode.mode = "Paint"))
    /\ [][mode' # mode =>
            calls' = <<[op |-> "content.applyMode", arg |-> mode'],
                       [op |-> "controls.applyMode", arg |-> mode'],
                       [op |-> "colorPicker.setVisible",
                        arg |-> [visible |-> (mode'.mode = "Paint")]]>>]_vars

C18_Witness ==
    /\ lastEvent = "paintModeRequests"
    /\ mode.mode = "Paint"
    /\ colorPickerVisible
    /\ CallOps(calls) =
         <<"content.applyMode", "controls.applyMode", "colorPicker.setVisible">>
    /\ calls[3].arg.visible

\* C19: in every reachable state an action other than None implies Transform
\* mode, so Paint mode always has action None; every change from Paint to
\* Transform carries Save or Discard and is made by a done or cancel request;
\* every change from Transform to Paint is made by a paint mode request.
C19_ActionImpliesTransform ==
    /\ [](mode.action # "None" => mode.mode = "Transform")
    /\ [][/\ (mode.mode = "Paint" /\ mode'.mode = "Transform")
              => /\ mode'.action \in {"Save", "Discard"}
                 /\ lastEvent' \in {"doneRequests", "cancelRequests"}
          /\ (mode.mode = "Transform" /\ mode'.mode = "Paint")
              => lastEvent' = "paintModeRequests"]_vars

C19_Witness ==
    /\ mode = [mode |-> "Transform", action |-> "Discard"]
    /\ lastEvent = "cancelRequests"
    /\ paintApplied
    /\ HasCall(calls, "content.applyMode", mode)
    /\ ~HasOp(calls, "cancel.fire")

\* C20: after a brush-save event is handled the stored brush bytes are the
\* encoding of the brush just saved, whether the write was made or skipped; the
\* brush is applied to the canvas on every brush-save event, first; the event
\* changes neither the mode nor the modifications.
C20_StoredBrushIsLastSaved ==
    [][lastEvent' = "saveBrushRequests"
        => /\ calls'[1].op = "content.applyBrush"
           /\ CountOp(calls', "content.applyBrush") = 1
           /\ photoEditorBrush' = Serialize(calls'[1].arg)
           /\ mode' = mode
           /\ modifications' = modifications]_vars

C20_Witness ==
    /\ lastEvent = "saveBrushRequests"
    /\ CallOps(calls) = <<"content.applyBrush">>
    /\ photoEditorBrush = Serialize(calls[1].arg)
    /\ nSetPhotoEditorBrush = 1
    /\ mode.mode = "Paint"

====
